---- MODULE Spec2Model ----
(***************************************************************************)
(* Model of bgs_sensor_explorer.py: the three cached getters               *)
(* (get_sensors, get_sensor_details, get_observations), the script run     *)
(* that calls them, the time-window filter construction, and the           *)
(* normalisation / summary statistics of an observation series.            *)
(*                                                                         *)
(* Four specifications share the module:                                   *)
(*   Spec       the script run, from the sensor list to the Refresh button *)
(*   SpecCache  one cached getter, called at any time                      *)
(*   SpecQuery  the time_filter / request-parameter construction           *)
(*   SpecNorm   DataFrame construction, sort and statistics                *)
(***************************************************************************)
EXTENDS Integers, Sequences, FiniteSets, TLC

VARIABLES
    now,            \* clock, in ticks of 1/TicksPerSec s since 2024-02-29T23:59:59Z
    ticked,         \* the clock advanced since the last step that reads it
    runs,           \* Spec: number of page loads and interactions (bounded)
    ops,            \* SpecCache: number of cache operations made (bounded)
    wrapped,        \* SpecCache: the cached function whose store is followed
    json_error_is_request_exception,
                    \* build: does response.json() raise a RequestException
                    \* subclass (requests >= 2.27) or a plain ValueError
    cache,          \* st.cache_data: one store per cached function
    last,           \* history: the most recent operation on the cache
    fetched,        \* history: per function, keys fetched since the last clear
    before_clear,   \* history: per function, the entries the last clear removed
    last_obs,       \* history: the most recent get_observations call
    pc,             \* position of the script run
    clicked,        \* this run was triggered by the Refresh Data button
    sensors_data, selected_sensor_id, sensor_details,
    selected_multiple, \* compare mode: the multiselect's value
    pending,        \* datastreams still to fetch in this run
    comparison_data,\* compare mode: datastreams that produced a frame
    time_range, time_filter, obs_limit,
    tf_at,          \* history: clock value at which time_filter was built
    start_time,     \* line 274
    observations, df, stats,
    shown,          \* what the page shows for the run
    q_utcnow,       \* SpecQuery: the instant datetime.utcnow() returns
    params          \* line 59: params of the last observations request built

vars == <<now, ticked, runs, ops, wrapped, json_error_is_request_exception,
          cache, last, fetched, before_clear, last_obs, pc, clicked,
          sensors_data, selected_sensor_id, sensor_details, selected_multiple,
          pending, comparison_data, time_range, time_filter, obs_limit, tf_at,
          start_time, observations, df, stats, shown, q_utcnow, params>>

envVars == <<wrapped, json_error_is_request_exception, q_utcnow>>
cacheVars == <<cache, last, fetched, before_clear>>
runVars == <<clicked, sensors_data, selected_sensor_id, sensor_details,
             selected_multiple, pending, comparison_data>>
optVars == <<time_range, time_filter, obs_limit, tf_at, start_time>>
viewVars == <<observations, df, stats, shown>>

-----------------------------------------------------------------------------
(* datetime arithmetic, as CPython's datetime module computes it            *)

IsLeap(y) == y % 4 = 0 /\ (y % 100 # 0 \/ y % 400 = 0)

DaysInMonth(y, m) ==
    IF m = 2 THEN (IF IsLeap(y) THEN 29 ELSE 28)
    ELSE IF m \in {4, 6, 9, 11} THEN 30 ELSE 31

RECURSIVE DaysBeforeMonth(_, _)
DaysBeforeMonth(y, m) ==
    IF m = 1 THEN 0 ELSE DaysBeforeMonth(y, m - 1) + DaysInMonth(y, m - 1)

DaysBeforeYear(y) ==
    LET p == y - 1 IN p * 365 + p \div 4 - p \div 100 + p \div 400

\* date.toordinal(): 0001-01-01 is day 1
Ymd2Ord(y, m, d) == DaysBeforeYear(y) + DaysBeforeMonth(y, m) + d

\* date.fromordinal()
Ord2Ymd(ord) ==
    LET n0   == ord - 1
        n400 == n0 \div 146097
        r400 == n0 % 146097
        n100 == r400 \div 36524
        r100 == r400 % 36524
        n4   == r100 \div 1461
        r4   == r100 % 1461
        n1   == r4 \div 365
        n    == r4 % 365
        year == n400 * 400 + 1 + n100 * 100 + n4 * 4 + n1
    IN  IF n1 = 4 \/ n100 = 4
        THEN [year |-> year - 1, month |-> 12, day |-> 31]
        ELSE LET est  == (n + 50) \div 32
                 prec == DaysBeforeMonth(year, est)
                 month == IF prec > n THEN est - 1 ELSE est
                 before == DaysBeforeMonth(year, month)
             IN  [year |-> year, month |-> month, day |-> n - before + 1]

\* datetime - timedelta(hours=hours)
MinusHours(dt, hours) ==
    LET secs  == dt.hour * 3600 + dt.minute * 60 + dt.second
                 - (hours % 24) * 3600
        days  == Ymd2Ord(dt.year, dt.month, dt.day) - hours \div 24
                 - (IF secs < 0 THEN 1 ELSE 0)
        s     == IF secs < 0 THEN secs + 86400 ELSE secs
        ymd   == Ord2Ymd(days)
    IN  [year |-> ymd.year, month |-> ymd.month, day |-> ymd.day,
         hour |-> s \div 3600, minute |-> (s % 3600) \div 60,
         second |-> s % 60, microsecond |-> dt.microsecond]

Pad2(n) == IF n < 10 THEN "0" \o ToString(n) ELSE ToString(n)

Pad4(n) ==
    IF n < 10 THEN "000" \o ToString(n)
    ELSE IF n < 100 THEN "00" \o ToString(n)
    ELSE IF n < 1000 THEN "0" \o ToString(n)
    ELSE ToString(n)

\* start_time.strftime('%Y-%m-%dT%H:%M:%SZ'): the microsecond is not printed
Strftime(dt) ==
    Pad4(dt.year) \o "-" \o Pad2(dt.month) \o "-" \o Pad2(dt.day) \o "T"
    \o Pad2(dt.hour) \o ":" \o Pad2(dt.minute) \o ":" \o Pad2(dt.second) \o "Z"

-----------------------------------------------------------------------------
(* Time-window filter and request parameters (lines 55-64, 257-278)         *)

TimeRanges == {"All available", "Last 24 hours", "Last 7 days",
               "Last 30 days", "Last 90 days"}

\* values the "Max observations per datastream" slider (50..1000) is set to
ObsLimits == {50, 200, 1000}

None == [is_none |-> TRUE, text |-> ""]
Str(s) == [is_none |-> FALSE, text |-> s]
Truthy(v) == ~v.is_none /\ v.text # ""

\* a table that takes a month for 31 days
hours_map_31(r) ==
    CASE r = "Last 24 hours" -> 24
      [] r = "Last 7 days"   -> 168
      [] r = "Last 30 days"  -> 744
      [] r = "Last 90 days"  -> 2160

hours_map(r) ==
    CASE r = "Last 24 hours" -> 24
      [] r = "Last 7 days"   -> 24 * 7
      [] r = "Last 30 days"  -> 24 * 30
      [] r = "Last 90 days"  -> 24 * 90

StartTime(utcnow, r) == MinusHours(utcnow, hours_map(r))

TimeFilter(utcnow, r) ==
    IF r # "All available"
    THEN Str("phenomenonTime ge " \o Strftime(StartTime(utcnow, r)))
    ELSE None

\* params of get_observations; a key that is not set is not a field
ObsParams(limit, tf) ==
    IF Truthy(tf)
    THEN [top |-> limit, orderby |-> "phenomenonTime desc", filter |-> tf.text]
    ELSE [top |-> limit, orderby |-> "phenomenonTime desc"]

NoParams == [top |-> 0, orderby |-> ""]

-----------------------------------------------------------------------------
(* Observation records, DataFrame construction and statistics               *)
(* (lines 312-334, 369-374)                                                 *)

\* A record's phenomenonTime is a parseable timestamp ("ts", at instant v),
\* not a key of the record ("absent"), or a string pd.to_datetime rejects
\* ("malformed"); its result is a number ("num") or not a key ("absent").
Ts(t) == [k |-> "ts", v |-> t]
Num(r) == [k |-> "num", v |-> r]
Absent == [k |-> "absent", v |-> 0]
Malformed == [k |-> "malformed", v |-> 0]
Obs(t, r) == [phenomenonTime |-> t, result |-> r]

\* pd.DataFrame(observations) has a column for every key some record has
HasColumn(rows, col) == \E i \in 1..Len(rows) : rows[i][col].k # "absent"

\* pd.to_datetime(df['phenomenonTime']) raises on a string it cannot parse;
\* a missing cell (NaN) becomes NaT
ToDatetimeRaises(rows) ==
    \E i \in 1..Len(rows) : rows[i].phenomenonTime.k = "malformed"

\* ascending order of the 'time' column, NaT last
TimeLess(a, b) ==
    /\ a.phenomenonTime.k = "ts"
    /\ b.phenomenonTime.k # "ts" \/ a.phenomenonTime.v < b.phenomenonTime.v

IsSortedByTime(rows) ==
    \A i, j \in 1..Len(rows) : i < j => ~TimeLess(rows[j], rows[i])

RowOrders(n) ==
    {p \in [1..n -> 1..n] : \A i, j \in 1..n : p[i] = p[j] => i = j}

\* df.sort_values('time'): the default sort is not stable, so rows with equal
\* times may come out in any order
SortValues(rows) ==
    {f \in {[i \in 1..Len(rows) |-> rows[p[i]]] : p \in RowOrders(Len(rows))} :
        IsSortedByTime(f)}

NumResults(rows) ==
    {rows[i].result.v : i \in {j \in 1..Len(rows) : rows[j].result.k = "num"}}

Min(S) == CHOOSE x \in S : \A y \in S : x <= y
Max(S) == CHOOSE x \in S : \A y \in S : x >= y

NoStats == [computed |-> FALSE]

\* lines 326-334: len(df), df['result'].iloc[0], .min(), .max() (NaN skipped)
Statistics(frame) ==
    [computed |-> TRUE,
     count  |-> Len(frame),
     latest |-> frame[1].result,
     min    |-> Min(NumResults(frame)),
     max    |-> Max(NumResults(frame))]

\* lines 312-350: what the single-datastream view does with an envelope's
\* value list; the set of outcomes, one per order the sort may produce
SingleView(obs) ==
    IF obs = <<>>
    THEN {[crashed |-> FALSE, shown |-> "no_observations", df |-> <<>>,
           stats |-> NoStats]}
    ELSE IF ~HasColumn(obs, "phenomenonTime") \/ ToDatetimeRaises(obs)
    THEN {[crashed |-> TRUE, shown |-> "exception", df |-> <<>>,
           stats |-> NoStats]}
    ELSE {IF HasColumn(f, "result")
          THEN [crashed |-> FALSE, shown |-> "stats", df |-> f,
                stats |-> Statistics(f)]
          ELSE [crashed |-> TRUE, shown |-> "exception", df |-> f,
                stats |-> NoStats]
          : f \in SortValues(obs)}

\* lines 369-374: the frame built for one datastream of the comparison
CompareFrame(obs) ==
    IF obs = <<>>
    THEN {[crashed |-> FALSE, added |-> FALSE, df |-> <<>>]}
    ELSE IF ~HasColumn(obs, "phenomenonTime") \/ ToDatetimeRaises(obs)
    THEN {[crashed |-> TRUE, added |-> FALSE, df |-> <<>>]}
    ELSE {[crashed |-> FALSE, added |-> TRUE, df |-> f] : f \in SortValues(obs)}

-----------------------------------------------------------------------------
(* The clock                                                                *)

TicksPerSec == 2

\* datetime.utcnow() at clock value t; the clock starts at
\* 2024-02-29T23:59:59.000000
ClockUtc(t) ==
    LET secs == 86399 + t \div TicksPerSec
        ymd  == Ord2Ymd(Ymd2Ord(2024, 2, 29) + secs \div 86400)
        s    == secs % 86400
    IN  [year |-> ymd.year, month |-> ymd.month, day |-> ymd.day,
         hour |-> s \div 3600, minute |-> (s % 3600) \div 60,
         second |-> s % 60,
         microsecond |-> (t % TicksPerSec) * (1000000 \div TicksPerSec)]

-----------------------------------------------------------------------------
(* The cached getters (lines 23-72)                                         *)

SensorsTtl == 300
DetailsTtl == 300
ObservationsTtl == 60

Getters == {"get_sensors", "get_sensor_details", "get_observations"}

Ttl(fn) ==
    CASE fn = "get_sensors"        -> SensorsTtl
      [] fn = "get_sensor_details" -> DetailsTtl
      [] fn = "get_observations"   -> ObservationsTtl

\* the time that passes between two steps: a fraction of a second, or a span
\* that ends that fraction below a TTL
Deltas(fns) == {1} \cup {Ttl(fn) * TicksPerSec - 1 : fn \in fns}

\* the arguments a call is cached under
SensorsKey(limit, filter_text) == [limit |-> limit, filter_text |-> filter_text]
DetailsKey(sensor_id) == [sensor_id |-> sensor_id]
\* a key that leaves the filter out
ObsKeyNoFilter(datastream_id, limit, tf) ==
    [datastream_id |-> datastream_id, limit |-> limit, time_filter |-> None]

ObsKey(datastream_id, limit, tf) ==
    [datastream_id |-> datastream_id, limit |-> limit, time_filter |-> tf]

\* what requests.get / raise_for_status / response.json() can do
Kinds == {"ok", "transport", "status", "decode"}

EmptyEnvelope == [value |-> <<>>]
EmptyObject == [empty |-> TRUE, id |-> 0, Datastreams |-> <<>>]

\* the value returned by the except branch
Substitute(fn) ==
    IF fn = "get_sensor_details" THEN EmptyObject ELSE EmptyEnvelope

\* bodies the API answers with
SensorsPayloads == {EmptyEnvelope, [value |-> <<1>>]}
DetailsPayloads(sensor_id) ==
    {[empty |-> FALSE, id |-> sensor_id, Datastreams |-> ds] :
        ds \in {<<>>, <<10 * sensor_id, 10 * sensor_id + 1>>}}
SeriesA == <<Obs(Ts(3), Num(2)), Obs(Ts(2), Num(9)), Obs(Ts(1), Num(5))>>
ObsPayloads == {EmptyEnvelope, [value |-> SeriesA]}

\* an entry that would still be served at the age of exactly ttl
IsLiveInclusive(e, t, ttl) == t - e.at <= ttl * TicksPerSec

\* an entry is live while its age is below the ttl
IsLive(e, t, ttl) == t - e.at < ttl * TicksPerSec

\* a store that is never consulted
NeverHit(store, key, t, ttl) == FALSE

CacheHit(store, key, t, ttl) ==
    \E e \in store : e.key = key /\ IsLive(e, t, ttl)

\* a store that keeps the values of successful exchanges only
CachePutSuccessOnly(store, key, value, kind, t, ttl) ==
    IF kind # "ok" THEN store
    ELSE {e \in store : e.key # key}
            \cup {[key |-> key, value |-> value, at |-> t, failed |-> FALSE]}

\* storing drops the expired entries and any older entry of the key;
\* `failed` is history: the entry holds an except branch's value
CachePut(store, key, value, kind, t, ttl) ==
    {e \in store : e.key # key /\ IsLive(e, t, ttl)}
        \cup {[key |-> key, value |-> value, at |-> t, failed |-> kind # "ok"]}

\* the try/except of a getter body: the outcome of one HTTP exchange
\* try: get, raise_for_status, json / except RequestException
GetterBody(fn, kind, payload) ==
    CASE kind = "ok" -> [raised |-> FALSE, value |-> payload]
      [] kind \in {"transport", "status"} ->
            [raised |-> FALSE, value |-> Substitute(fn)]
      [] kind = "decode" ->
            [raised |-> ~json_error_is_request_exception,
             value |-> Substitute(fn)]

\* a call of a cached getter at clock t: the entry found, the exchange made
\* on a miss, the store afterwards.  History fields: `endpoint` is what the
\* API would answer at t, `dropped` says the last clear removed an entry of
\* the key that would still be live at t
CachedCall(fn, key, kind, payload, t) ==
    LET store == cache[fn]
        found == {e \in store : e.key = key}
        had   == found # {}
        old   == IF had THEN CHOOSE e \in found : TRUE
                 ELSE [key |-> key, value |-> Substitute(fn), at |-> t,
                       failed |-> FALSE]
        dropped == \E e \in before_clear[fn] :
                      e.key = key /\ t - e.at < Ttl(fn) * TicksPerSec
    IN  IF CacheHit(store, key, t, Ttl(fn))
        THEN [op |-> fn, key |-> key, at |-> t, had |-> TRUE,
              age |-> t - old.at, hit |-> TRUE, got |-> 0, kind |-> "cached",
              endpoint |-> kind, dropped |-> dropped,
              raised |-> FALSE, ret |-> old.value, store |-> store]
        ELSE LET r == GetterBody(fn, kind, payload)
             IN  [op |-> fn, key |-> key, at |-> t, had |-> had,
                  age |-> t - old.at, hit |-> FALSE, got |-> 1, kind |-> kind,
                  endpoint |-> kind, dropped |-> dropped,
                  raised |-> r.raised, ret |-> r.value,
                  store |-> IF r.raised THEN store
                            ELSE CachePut(store, key, r.value, kind, t, Ttl(fn))]

\* the effect of a call on the cache and on the history
Record(c) ==
    /\ cache' = [cache EXCEPT ![c.op] = c.store]
    /\ last' = [f \in DOMAIN c \ {"store"} |-> c[f]]
    /\ fetched' = IF c.got = 1
                  THEN [fetched EXCEPT ![c.op] = @ \cup {c.key}]
                  ELSE fetched
    /\ before_clear' =
          IF c.got = 1
          THEN [before_clear EXCEPT ![c.op] = {e \in @ : e.key # c.key}]
          ELSE before_clear

NoCall == [op |-> "none"]
EmptyStores == [fn \in Getters |-> {}]
NoObsCall == [called |-> FALSE]

\* the history of get_observations calls
NoteObsCall(c, range, built_at) ==
    last_obs' = [called |-> TRUE, datastream_id |-> c.key.datastream_id,
                 limit |-> c.key.limit, time_range |-> range,
                 tf_at |-> built_at, at |-> c.at, got |-> c.got, hit |-> c.hit,
                 raised |-> c.raised]

\* a clear that removes nothing
KeptCache(c) == c

\* st.cache_data.clear()
ClearedCache(c) == EmptyStores

\* the effect of the clear on the cache and on the history
RecordClear ==
    /\ cache' = ClearedCache(cache)
    /\ last' = [op |-> "clear", at |-> now]
    /\ fetched' = EmptyStores
    /\ before_clear' =
          [fn \in Getters |-> {[key |-> e.key, at |-> e.at] : e \in cache[fn]}]
    /\ last_obs' = NoObsCall

\* a step that reads the clock
ReadClock == now' = now /\ ticked' = FALSE

-----------------------------------------------------------------------------
(* The script run (lines 148-457)                                           *)

MaxRuns == 2

NoData == [value |-> <<>>]

\* the slider values and the time ranges the runs of Spec select
RunLimits == {200}
RunRanges == {"All available", "Last 24 hours"}

\* lines 264-275 at the instant utcnow
BuildTimeFilter(utcnow, r) ==
    /\ time_range' = r
    /\ time_filter' = TimeFilter(utcnow, r)
    /\ start_time' = IF r # "All available" THEN StartTime(utcnow, r)
                     ELSE start_time

ResetRun ==
    /\ sensors_data' = NoData
    /\ selected_sensor_id' = 0
    /\ sensor_details' = EmptyObject
    /\ selected_multiple' = <<>>
    /\ pending' = <<>>
    /\ comparison_data' = {}
    /\ time_range' = "All available"
    /\ time_filter' = None
    /\ tf_at' = 0
    /\ obs_limit' = 200
    /\ start_time' = ClockUtc(0)
    /\ observations' = <<>>
    /\ df' = <<>>
    /\ stats' = NoStats
    /\ shown' = "nothing"

\* a widget interaction or a page load starts a run; only a page that was
\* rendered to the end shows the Refresh Data button
Interact ==
    /\ pc \in {"idle", "stopped", "crashed"}
    /\ runs < MaxRuns
    /\ runs' = runs + 1
    /\ pc' = "start"
    /\ clicked' \in (IF pc = "idle" THEN BOOLEAN ELSE {FALSE})
    /\ ResetRun
    /\ UNCHANGED <<now, ticked, ops, envVars, cacheVars, last_obs, params>>

\* lines 152-159
LoadSensors ==
    /\ pc = "start"
    /\ \E kind \in Kinds, payload \in SensorsPayloads :
        LET c == CachedCall("get_sensors", SensorsKey(1000, None), kind,
                            payload, now)
        IN  /\ Record(c)
            /\ IF c.raised
               THEN pc' = "crashed" /\ shown' = "exception"
                    /\ UNCHANGED sensors_data
               ELSE /\ sensors_data' = c.ret
                    /\ IF c.ret.value = <<>>
                       THEN pc' = "stopped" /\ shown' = "no_sensors"
                       ELSE pc' = "details" /\ UNCHANGED shown
    /\ ReadClock
    /\ UNCHANGED <<runs, ops, envVars, last_obs, params, clicked,
                   selected_sensor_id, sensor_details, selected_multiple,
                   pending, comparison_data, optVars, observations, df, stats>>

SeqRange(q) == {q[i] : i \in 1..Len(q)}

\* lines 161-240
LoadSensorDetails ==
    /\ pc = "details"
    /\ \E sid \in SeqRange(sensors_data.value), kind \in Kinds :
       \E payload \in DetailsPayloads(sid) :
        LET c == CachedCall("get_sensor_details", DetailsKey(sid), kind,
                            payload, now)
        IN  /\ Record(c)
            /\ selected_sensor_id' = sid
            /\ IF c.raised
               THEN pc' = "crashed" /\ shown' = "exception"
                    /\ UNCHANGED sensor_details
               ELSE /\ sensor_details' = c.ret
                    /\ IF c.ret.empty
                       THEN pc' = "stopped" /\ shown' = "no_details"
                       ELSE IF c.ret.Datastreams = <<>>
                       THEN pc' = "stopped" /\ shown' = "no_datastreams"
                       ELSE pc' = "options" /\ UNCHANGED shown
    /\ ReadClock
    /\ UNCHANGED <<runs, ops, envVars, last_obs, params, clicked, sensors_data,
                   selected_multiple, pending, comparison_data, optVars,
                   observations, df, stats>>

\* the values of the multiselect (at most 4 of the datastreams), chosen in
\* the order listed
Selections(ds) ==
    {SubSeq(ds, 1, n) : n \in 0..(IF Len(ds) < 4 THEN Len(ds) ELSE 4)}

\* lines 257-307 and 352-362: the widgets' values
SelectOptions ==
    /\ pc = "options"
    /\ \E r \in RunRanges, lim \in RunLimits :
        /\ BuildTimeFilter(ClockUtc(now), r)
        /\ obs_limit' = lim
    /\ tf_at' = now
    /\ LET ds == sensor_details.Datastreams
       IN  \/ \E d \in SeqRange(ds) :
                /\ pc' = "single"
                /\ pending' = <<d>>
                /\ selected_multiple' = <<>>
           \/ /\ Len(ds) > 1
              /\ pc' = "compare"
              /\ \E sel \in Selections(ds) :
                    /\ selected_multiple' = sel
                    /\ pending' = IF Len(sel) > 1 THEN sel ELSE <<>>
    /\ ReadClock
    /\ UNCHANGED <<runs, ops, envVars, cacheVars, last_obs, params, clicked,
                   sensors_data, selected_sensor_id, sensor_details,
                   comparison_data, viewVars>>

\* lines 306-350
SingleDatastream ==
    /\ pc = "single"
    /\ \E kind \in Kinds, payload \in ObsPayloads :
        LET c == CachedCall("get_observations",
                            ObsKey(pending[1], obs_limit, time_filter), kind,
                            payload, now)
        IN  /\ Record(c)
            /\ NoteObsCall(c, time_range, tf_at)
            /\ params' = IF c.got = 1 THEN ObsParams(obs_limit, time_filter)
                         ELSE params
            /\ IF c.raised
               THEN pc' = "crashed" /\ shown' = "exception"
                    /\ UNCHANGED <<observations, df, stats>>
               ELSE /\ observations' = c.ret.value
                    /\ \E v \in SingleView(c.ret.value) :
                        /\ df' = v.df
                        /\ stats' = v.stats
                        /\ shown' = v.shown
                        /\ pc' = IF v.crashed THEN "crashed" ELSE "footer"
    /\ pending' = <<>>
    /\ ReadClock
    /\ UNCHANGED <<runs, ops, envVars, clicked, sensors_data,
                   selected_sensor_id, sensor_details, selected_multiple,
                   comparison_data, optVars>>

\* lines 366-381: one iteration of the loop over selected_multiple
CompareFetch ==
    /\ pc = "compare"
    /\ pending # <<>>
    /\ \E kind \in Kinds, payload \in ObsPayloads :
        LET c == CachedCall("get_observations",
                            ObsKey(pending[1], obs_limit, time_filter), kind,
                            payload, now)
        IN  /\ Record(c)
            /\ NoteObsCall(c, time_range, tf_at)
            /\ params' = IF c.got = 1 THEN ObsParams(obs_limit, time_filter)
                         ELSE params
            /\ IF c.raised
               THEN pc' = "crashed" /\ shown' = "exception"
                    /\ UNCHANGED <<observations, df, comparison_data, pending>>
               ELSE /\ observations' = c.ret.value
                    /\ \E v \in CompareFrame(c.ret.value) :
                        /\ df' = v.df
                        /\ comparison_data' =
                              IF v.added THEN comparison_data \cup {pending[1]}
                              ELSE comparison_data
                        /\ IF v.crashed
                           THEN pc' = "crashed" /\ shown' = "exception"
                                /\ UNCHANGED pending
                           ELSE pc' = "compare" /\ pending' = Tail(pending)
                                /\ UNCHANGED shown
    /\ ReadClock
    /\ UNCHANGED <<runs, ops, envVars, clicked, sensors_data,
                   selected_sensor_id, sensor_details, selected_multiple,
                   optVars, stats>>

\* lines 362-392 after the loop: the chart, the warning or the hint
CompareShow ==
    /\ pc = "compare"
    /\ pending = <<>>
    /\ shown' = IF Len(selected_multiple) > 1
                THEN (IF comparison_data # {} THEN "chart" ELSE "no_data")
                ELSE "hint"
    /\ pc' = "footer"
    /\ UNCHANGED <<now, ticked, runs, ops, envVars, cacheVars, last_obs,
                   params, runVars, optVars, observations, df, stats>>

\* lines 454-457, the button pressed: st.cache_data.clear() and st.rerun()
RefreshData ==
    /\ pc = "footer"
    /\ clicked
    /\ RecordClear
    /\ pc' = "start"
    /\ clicked' = FALSE
    /\ ResetRun
    /\ UNCHANGED <<now, ticked, runs, ops, envVars, params>>

\* lines 446-455, the button not pressed: the run ends
Finish ==
    /\ pc = "footer"
    /\ ~clicked
    /\ pc' = "idle"
    /\ UNCHANGED <<now, ticked, runs, ops, envVars, cacheVars, last_obs,
                   params, runVars, optVars, viewVars>>

\* time passes before a run starts
Tick ==
    /\ pc = "start"
    /\ ~ticked
    /\ \E d \in Deltas(Getters) : now' = now + d
    /\ ticked' = TRUE
    /\ UNCHANGED <<runs, ops, envVars, cacheVars, last_obs, params, pc,
                   runVars, optVars, viewVars>>

Defaults ==
    /\ now = 0
    /\ ticked = FALSE
    /\ runs = 1
    /\ ops = 0
    /\ cache = EmptyStores
    /\ last = NoCall
    /\ fetched = EmptyStores
    /\ before_clear = EmptyStores
    /\ last_obs = NoObsCall
    /\ clicked = FALSE
    /\ sensors_data = NoData
    /\ selected_sensor_id = 0
    /\ sensor_details = EmptyObject
    /\ selected_multiple = <<>>
    /\ pending = <<>>
    /\ comparison_data = {}
    /\ time_range = "All available"
    /\ time_filter = None
    /\ tf_at = 0
    /\ obs_limit = 200
    /\ start_time = ClockUtc(0)
    /\ df = <<>>
    /\ stats = NoStats
    /\ shown = "nothing"
    /\ params = NoParams

Init ==
    /\ Defaults
    /\ wrapped = "all"
    /\ pc = "start"
    /\ json_error_is_request_exception \in BOOLEAN
    /\ observations = <<>>
    /\ q_utcnow = ClockUtc(0)

Next ==
    \/ Interact
    \/ LoadSensors
    \/ LoadSensorDetails
    \/ SelectOptions
    \/ SingleDatastream
    \/ CompareFetch
    \/ CompareShow
    \/ RefreshData
    \/ Finish
    \/ Tick

Spec == Init /\ [][Next]_vars

-----------------------------------------------------------------------------
(* SpecCache: one cached function, called at any time with the arguments   *)
(* the script passes it.  st.cache_data keeps a separate store for every    *)
(* decorated function; `wrapped` is the function whose store is followed.   *)

MaxOps == 3

\* the datastream the calls of SpecCache select
CacheStreams == {10}

idleVars == <<runs, envVars, pc, runVars, viewVars>>

\* line 153: get_sensors(limit=1000)
CGetSensors ==
    /\ wrapped = "get_sensors"
    /\ ops < MaxOps
    /\ \E kind \in Kinds, payload \in SensorsPayloads :
        Record(CachedCall("get_sensors", SensorsKey(1000, None), kind,
                          payload, now))
    /\ ops' = ops + 1
    /\ ReadClock
    /\ UNCHANGED <<idleVars, optVars, last_obs, params>>

\* line 183: get_sensor_details(selected_sensor_id)
CGetSensorDetails ==
    /\ wrapped = "get_sensor_details"
    /\ ops < MaxOps
    /\ \E sid \in {1, 2}, kind \in Kinds :
       \E payload \in DetailsPayloads(sid) :
        Record(CachedCall("get_sensor_details", DetailsKey(sid), kind,
                          payload, now))
    /\ ops' = ops + 1
    /\ ReadClock
    /\ UNCHANGED <<idleVars, optVars, last_obs, params>>

\* lines 257-278 and 310: the time range and the slider are read, the
\* filter is built, get_observations(id, limit=obs_limit,
\* time_filter=time_filter) is called
CGetObservations ==
    /\ wrapped = "get_observations"
    /\ ops < MaxOps
    /\ \E r \in RunRanges, lim \in RunLimits :
        /\ BuildTimeFilter(ClockUtc(now), r)
        /\ obs_limit' = lim
    /\ tf_at' = now
    /\ \E ds \in CacheStreams, kind \in Kinds, payload \in ObsPayloads :
        LET c == CachedCall("get_observations",
                            ObsKey(ds, obs_limit', time_filter'), kind,
                            payload, now)
        IN  /\ Record(c)
            /\ NoteObsCall(c, time_range', tf_at')
            /\ params' = IF c.got = 1 THEN ObsParams(obs_limit', time_filter')
                         ELSE params
    /\ ops' = ops + 1
    /\ ReadClock
    /\ UNCHANGED idleVars

\* line 456: st.cache_data.clear()
CClear ==
    /\ ops < MaxOps
    /\ RecordClear
    /\ ops' = ops + 1
    /\ UNCHANGED <<now, ticked, idleVars, optVars, params>>

\* time passes between two operations
CTick ==
    /\ ~ticked
    /\ ops < MaxOps
    /\ \E d \in Deltas({wrapped}) : now' = now + d
    /\ ticked' = TRUE
    /\ UNCHANGED <<ops, idleVars, cacheVars, last_obs, optVars, params>>

CInit ==
    /\ Defaults
    /\ wrapped \in Getters
    /\ pc = "cache"
    /\ json_error_is_request_exception \in BOOLEAN
    /\ observations = <<>>
    /\ q_utcnow = ClockUtc(0)

CNext ==
    \/ CGetSensors
    \/ CGetSensorDetails
    \/ CGetObservations
    \/ CClear
    \/ CTick

SpecCache == CInit /\ [][CNext]_vars

-----------------------------------------------------------------------------
(* SpecQuery: the filter and the request parameters at chosen instants      *)

QDates == {<<2024, 1, 8>>, <<2024, 3, 1>>, <<2024, 1, 1>>, <<2023, 3, 1>>,
           <<2025, 3, 30>>, <<2100, 3, 1>>}
QTimes == {<<0, 0, 0>>, <<12, 34, 56>>, <<23, 59, 59>>}
QMicros == {0, 999999}

Instants ==
    {[year |-> d[1], month |-> d[2], day |-> d[3], hour |-> t[1],
      minute |-> t[2], second |-> t[3], microsecond |-> us] :
        d \in QDates, t \in QTimes, us \in QMicros}

\* lines 257-278 at the instant q_utcnow
QSelectOptions ==
    /\ pc = "q_start"
    /\ \E r \in TimeRanges, lim \in ObsLimits :
        /\ BuildTimeFilter(q_utcnow, r)
        /\ obs_limit' = lim
    /\ pc' = "q_selected"
    /\ UNCHANGED <<now, ticked, runs, ops, envVars, cacheVars, last_obs,
                   runVars, tf_at, viewVars, params>>

\* lines 58-64: the parameters of the request get_observations sends
QRequest ==
    /\ pc = "q_selected"
    /\ params' = ObsParams(obs_limit, time_filter)
    /\ pc' = "q_sent"
    /\ UNCHANGED <<now, ticked, runs, ops, envVars, cacheVars, last_obs,
                   runVars, optVars, viewVars>>

QInit ==
    /\ Defaults
    /\ wrapped = "none"
    /\ pc = "q_start"
    /\ json_error_is_request_exception = TRUE
    /\ observations = <<>>
    /\ q_utcnow \in Instants

QNext == QSelectOptions \/ QRequest

SpecQuery == QInit /\ [][QNext]_vars

-----------------------------------------------------------------------------
(* SpecNorm: the views applied to bounded observation lists                 *)

MaxObs == 3

ObsCells ==
    {Obs(t, r) : t \in {Ts(1), Ts(2), Ts(3), Absent, Malformed},
                 r \in {Num(2), Num(5), Num(9), Absent}}

\* the API answers with $orderby=phenomenonTime desc: the records that carry
\* a timestamp come newest first
NewestFirst(rows) ==
    \A i, j \in 1..Len(rows) :
        (i < j /\ rows[i].phenomenonTime.k = "ts"
               /\ rows[j].phenomenonTime.k = "ts")
            => rows[i].phenomenonTime.v >= rows[j].phenomenonTime.v

ObsInputs ==
    {rows \in UNION {[1..n -> ObsCells] : n \in 0..MaxObs} : NewestFirst(rows)}

\* lines 312-350 on the list `observations`
NSingle ==
    /\ pc = "n_loaded"
    /\ \E v \in SingleView(observations) :
        /\ df' = v.df
        /\ stats' = v.stats
        /\ shown' = v.shown
        /\ pc' = IF v.crashed THEN "n_crashed" ELSE "n_single"
    /\ UNCHANGED <<now, ticked, runs, ops, envVars, cacheVars, last_obs,
                   runVars, optVars, observations, params>>

\* lines 369-381 on the list `observations`
NCompare ==
    /\ pc = "n_loaded"
    /\ \E v \in CompareFrame(observations) :
        /\ df' = v.df
        /\ shown' = IF v.crashed THEN "exception"
                    ELSE IF v.added THEN "chart" ELSE "no_data"
        /\ pc' = IF v.crashed THEN "n_crashed" ELSE "n_compare"
    /\ UNCHANGED <<now, ticked, runs, ops, envVars, cacheVars, last_obs,
                   runVars, optVars, observations, stats, params>>

NInit ==
    /\ Defaults
    /\ wrapped = "none"
    /\ pc = "n_loaded"
    /\ json_error_is_request_exception = TRUE
    /\ observations \in ObsInputs
    /\ q_utcnow = ClockUtc(0)

NNext == NSingle \/ NCompare

SpecNorm == NInit /\ [][NNext]_vars

-----------------------------------------------------------------------------
(* Properties of the cache (SpecCache)                                      *)

\* the ttl of each getter in seconds, as documented
DocumentedTtl(fn) == IF fn = "get_observations" THEN 60 ELSE 300

\* the UTC second clock value t falls in
Second(t) == t \div TicksPerSec

\* the entries the store of the last call holds for its key
EntriesOfLastKey == {e \in cache[last.op] : e.key = last.key}

\* C1: for each cached getter, a call whose arguments have an entry younger
\* than the ttl, with no clear since the entry was stored, issues no HTTP
\* GET and returns the stored value: the entry's one GET is the only one of
\* its validity window.
C1_SecondCallWithinTtlIssuesNoGet ==
    last.op \in Getters =>
        ((last.had /\ last.age < DocumentedTtl(last.op) * TicksPerSec) =>
            /\ last.got = 0
            /\ last.hit
            /\ \E e \in EntriesOfLastKey :
                  e.value = last.ret /\ e.at = last.at - last.age)

\* C1 witness: a call made one tick before its entry expires, while the API
\* would answer; it is served from the store
C1_Witness ==
    /\ last.op \in Getters
    /\ last.had
    /\ last.age = Ttl(last.op) * TicksPerSec - 1
    /\ last.endpoint = "ok"
    /\ last.got = 0

\* C2: an entry is valid iff now - insertedAt < ttl (300 s for get_sensors
\* and get_sensor_details, 60 s for get_observations): a call at or after
\* insertedAt + ttl issues a new GET and the value it returns replaces the
\* entry; no call returns a value whose entry is as old as its ttl or older.
C2_EntryValidIffYoungerThanTtl ==
    last.op \in Getters =>
        LET window == DocumentedTtl(last.op) * TicksPerSec
        IN  /\ last.had => (last.hit <=> last.age < window)
            /\ last.got = 0 => (last.had /\ last.age < window)
            /\ (last.had /\ last.age >= window) =>
                  /\ last.got = 1
                  /\ ~last.raised =>
                        /\ EntriesOfLastKey # {}
                        /\ \A e \in EntriesOfLastKey :
                              e.at = last.at /\ e.value = last.ret

\* C2 witness: a call made exactly ttl after its entry was stored; it
\* fetches and the entry is replaced
C2_Witness ==
    /\ last.op = "get_observations"
    /\ last.had
    /\ last.age = 60 * TicksPerSec
    /\ last.got = 1
    /\ ~last.raised
    /\ \A e \in EntriesOfLastKey : e.at = last.at

\* C3: after st.cache_data.clear() every store is empty; the next call of
\* each getter, for any arguments and whatever the age of the entry removed,
\* issues a GET, and a value served from the store was fetched after the
\* clear.
C3_CallAfterClearIssuesGet ==
    /\ last.op = "clear" => \A fn \in Getters : cache[fn] = {}
    /\ last.op \in Getters =>
          /\ last.dropped => (last.got = 1 /\ ~last.had)
          /\ last.hit => last.key \in fetched[last.op]

\* C3 witness: the first call for a key whose entry the clear removed while
\* it was still live
C3_Witness ==
    /\ last.op \in Getters
    /\ last.dropped
    /\ last.got = 1

\* C4: when the request of a getter fails and the getter returns its
\* substitute ({"value": []}, or {} for get_sensor_details), the substitute
\* is stored under the call's arguments; a later call served from that
\* entry returns the substitute without a GET, whatever the API would
\* answer then.
C4_FailedFetchIsCached ==
    last.op \in Getters =>
        LET substitute == IF last.op = "get_sensor_details" THEN EmptyObject
                          ELSE EmptyEnvelope
        IN  /\ (last.got = 1 /\ last.kind # "ok" /\ ~last.raised) =>
                  /\ last.ret = substitute
                  /\ \E e \in EntriesOfLastKey :
                        e.value = substitute /\ e.at = last.at /\ e.failed
            /\ \A e \in EntriesOfLastKey : e.failed => e.value = substitute
            /\ (last.had /\ last.age < DocumentedTtl(last.op) * TicksPerSec
                  /\ \E e \in EntriesOfLastKey : e.failed) =>
                  (last.got = 0 /\ last.ret = substitute)

\* C4 witness: a call served the substitute of an earlier failure although
\* the API would answer now
C4_Witness ==
    /\ last.op \in Getters
    /\ last.hit
    /\ last.age > 0
    /\ last.endpoint = "ok"
    /\ \E e \in EntriesOfLastKey : e.failed /\ e.value = last.ret

\* C5: every failure of the exchange (transport, status, undecodable body)
\* is caught in the getter and turned into the substitute; no call raises.
C5_NoFetchFailurePropagates ==
    (last.op \in Getters /\ last.got = 1 /\ last.kind # "ok") =>
        (~last.raised /\ last.ret = Substitute(last.op))

\* the parts of C10 that hold in every state
C10_State ==
    (last.op = "get_observations" /\ last_obs.called) =>
        /\ last_obs.time_range # "All available" =>
              /\ ~last.key.time_filter.is_none
              /\ last.key.time_filter = time_filter
        /\ (last.hit /\ Second(last.at) # Second(last.at - last.age)) =>
              last_obs.time_range = "All available"
        /\ (last_obs.time_range = "All available" /\ last.had
              /\ last.age < 60 * TicksPerSec) =>
              (last.hit /\ last.got = 0)

\* the part of C10 about two calls in a row
C10_Step ==
    (/\ last.op = "get_observations" /\ last_obs.called
     /\ last'.op = "get_observations" /\ last_obs'.called
     /\ last_obs'.datastream_id = last_obs.datastream_id
     /\ last_obs'.limit = last_obs.limit
     /\ last_obs'.time_range = last_obs.time_range
     /\ last_obs.time_range # "All available"
     /\ Second(last_obs'.tf_at) # Second(last_obs.tf_at))
        => (last'.key # last.key /\ last'.got = 1)

\* C10: the key of get_observations holds the time_filter string, which for
\* a named window embeds the UTC second of the run: two runs with the same
\* datastream, limit and named window that start in different seconds have
\* different keys and the second issues a GET, also within 60 s of the
\* first; a repeat in another second is served from the store only with
\* "All available", where it is served whenever it comes within 60 s.
C10_KeyEmbedsTheSecond == []C10_State /\ [][C10_Step]_vars

\* C10 witness: two live entries of one datastream, limit and window, stored
\* less than 60 s apart in different seconds, the later one just fetched
C10_Witness ==
    /\ last.op = "get_observations"
    /\ last.got = 1
    /\ last_obs.time_range = "Last 24 hours"
    /\ \E e1, e2 \in cache["get_observations"] :
          /\ e2.key = last.key /\ e2.at = last.at
          /\ e1.key.datastream_id = e2.key.datastream_id
          /\ e1.key.limit = e2.key.limit
          /\ ~e1.key.time_filter.is_none
          /\ e1.key.time_filter # e2.key.time_filter
          /\ e2.at - e1.at < 60 * TicksPerSec
          /\ Second(e1.at) # Second(e2.at)

-----------------------------------------------------------------------------
(* Properties of the script run (Spec)                                      *)

\* C9: a fetch that fails at any stage ends the run in a "no data" state:
\* the run never crashes, an empty sensors envelope stops it before
\* get_sensor_details, an empty detail object or one without Datastreams
\* stops it before get_observations, an empty observations envelope shows
\* the warning, and no statistics are computed on an empty series.
C9_FailedFetchEndsInNoData ==
    /\ pc # "crashed"
    /\ shown = "no_sensors" => (pc = "stopped" /\ last.op = "get_sensors")
    /\ shown \in {"no_details", "no_datastreams"} =>
          (pc = "stopped" /\ last.op = "get_sensor_details")
    /\ shown = "no_observations" => (observations = <<>> /\ ~stats.computed)
    /\ stats.computed => observations # <<>>

-----------------------------------------------------------------------------
(* Properties of the request parameters (SpecQuery)                         *)

\* days since 1970-01-01 of a civil date, and back (proleptic Gregorian)
DaysFromCivil(y, m, d) ==
    LET yy  == IF m <= 2 THEN y - 1 ELSE y
        era == yy \div 400
        yoe == yy - era * 400
        mp  == IF m > 2 THEN m - 3 ELSE m + 9
        doy == (153 * mp + 2) \div 5 + d - 1
        doe == yoe * 365 + yoe \div 4 - yoe \div 100 + doy
    IN  era * 146097 + doe - 719468

CivilFromDays(z) ==
    LET zz  == z + 719468
        era == zz \div 146097
        doe == zz - era * 146097
        yoe == (doe - doe \div 1460 + doe \div 36524 - doe \div 146096) \div 365
        doy == doe - (365 * yoe + yoe \div 4 - yoe \div 100)
        mp  == (5 * doy + 2) \div 153
        d   == doy - (153 * mp + 2) \div 5 + 1
        m   == IF mp < 10 THEN mp + 3 ELSE mp - 9
        y   == yoe + era * 400
    IN  [year |-> IF m <= 2 THEN y + 1 ELSE y, month |-> m, day |-> d]

Digits2(n) == ToString(n \div 10) \o ToString(n % 10)
Digits4(n) == Digits2(n \div 100) \o Digits2(n % 100)

\* the window of each named range in hours, as documented
DocumentedHours(r) ==
    CASE r = "Last 24 hours" -> 24
      [] r = "Last 7 days"   -> 168
      [] r = "Last 30 days"  -> 720
      [] r = "Last 90 days"  -> 2160

\* YYYY-MM-DDTHH:MM:SSZ of the instant dt minus h hours, whole seconds
IsoBefore(dt, h) ==
    LET secs == dt.hour * 3600 + dt.minute * 60 + dt.second - (h % 24) * 3600
        days == DaysFromCivil(dt.year, dt.month, dt.day) - h \div 24
                    - (IF secs < 0 THEN 1 ELSE 0)
        sod  == IF secs < 0 THEN secs + 86400 ELSE secs
        c    == CivilFromDays(days)
    IN  Digits4(c.year) \o "-" \o Digits2(c.month) \o "-" \o Digits2(c.day)
            \o "T" \o Digits2(sod \div 3600) \o ":"
            \o Digits2((sod % 3600) \div 60) \o ":" \o Digits2(sod % 60)
            \o "Z"

\* C8: for a named window the filter is "phenomenonTime ge T", T = utcnow
\* minus H hours (24, 168, 720, 2160) cut to whole seconds and written
\* YYYY-MM-DDTHH:MM:SSZ; for "All available" time_filter is None and the
\* request has no $filter; every request has $top = limit and
\* $orderby = "phenomenonTime desc".
C8_FilterAndRequestParams ==
    /\ pc \in {"q_selected", "q_sent"} =>
          IF time_range = "All available"
          THEN time_filter = None
          ELSE time_filter =
                  Str("phenomenonTime ge "
                        \o IsoBefore(q_utcnow, DocumentedHours(time_range)))
    /\ pc = "q_sent" =>
          /\ params.top = obs_limit
          /\ params.orderby = "phenomenonTime desc"
          /\ IF time_range = "All available"
             THEN DOMAIN params = {"top", "orderby"}
             ELSE /\ DOMAIN params = {"top", "orderby", "filter"}
                  /\ params.filter = time_filter.text

\* C8 witness: a request built at 2024-03-01T12:34:56.999999 for the last
\* 24 hours, with 50 observations asked for
C8_Witness ==
    /\ pc = "q_sent"
    /\ q_utcnow = [year |-> 2024, month |-> 3, day |-> 1, hour |-> 12,
                   minute |-> 34, second |-> 56, microsecond |-> 999999]
    /\ time_range = "Last 24 hours"
    /\ params = [top |-> 50, orderby |-> "phenomenonTime desc",
                 filter |-> "phenomenonTime ge 2024-02-29T12:34:56Z"]

-----------------------------------------------------------------------------
(* Properties of the normalisation and the statistics (SpecNorm)            *)

\* a record with a parseable phenomenonTime and a numeric result
IsValid(o) == o.phenomenonTime.k = "ts" /\ o.result.k = "num"

ValidOnes(rows) == SelectSeq(rows, IsValid)

\* C6: for a non-empty series the summary shows count = number of records,
\* min = the smallest and max = the largest result, and latest = the result
\* of a record with the greatest phenomenonTime.
C6_SummaryOfSeries ==
    (/\ pc = "n_single"
     /\ observations # <<>>
     /\ \A i \in 1..Len(observations) : IsValid(observations[i])) =>
        /\ stats.computed
        /\ stats.count = Len(observations)
        /\ \A i \in 1..Len(observations) :
              /\ stats.min <= observations[i].result.v
              /\ stats.max >= observations[i].result.v
        /\ \E i \in 1..Len(observations) :
              /\ stats.latest = observations[i].result
              /\ \A j \in 1..Len(observations) :
                    observations[j].phenomenonTime.v
                        <= observations[i].phenomenonTime.v

\* C7: a list with N valid and M malformed records yields a frame of
\* exactly the N valid records in ascending time order; a malformed record
\* is dropped and never ends the run with an error.
C7_MalformedRecordsDropped ==
    /\ pc # "n_crashed"
    /\ (pc \in {"n_single", "n_compare"} /\ observations # <<>>) =>
          /\ Len(df) = Len(ValidOnes(observations))
          /\ \A i \in 1..Len(df) : IsValid(df[i])
          /\ IsSortedByTime(df)

====
